---- MODULE Spec2Model ----
(***************************************************************************)
(* Model of the race-results scraping notebook                             *)
(* (Analyzing_Race_Results_Part_1_Web_Scraping): fetch each year's page,   *)
(* extract the table rows, drop titles and repeated headers, merge the     *)
(* years, derive Time and Minutes, coerce the integer columns, sort and    *)
(* pickle.                                                                 *)
(*                                                                         *)
(* A string is a sequence of one-character strings, so that strptime and   *)
(* int() can be modelled by what they do to the characters.                *)
(***************************************************************************)
EXTENDS Integers, Sequences, FiniteSets

\* ------------------------------------------------------------------ bounds
MaxTimeLen == 6      \* longest Total Time string tried on the converter
MaxParseRows == 4    \* longest row list tried on the row cleaner
MaxSiteRows == 4     \* most table rows the pages of the site hold together

\* --------------------------------------------------------------- constants
HeaderLen == 9
SecondsPerMinute == 60
SecondsPerDay == 86400

\* ----------------------------------------------------------------- strings
DigitSeq == <<"0", "1", "2", "3", "4", "5", "6", "7", "8", "9">>
Digit == {DigitSeq[i] : i \in 1..10}
DigitVal(c) == (CHOOSE i \in 1..10 : DigitSeq[i] = c) - 1

IsDigitAt(s, p) == p >= 1 /\ p <= Len(s) /\ s[p] \in Digit

\* ---------------------------------------------------------------------------
\* datetime.strptime(time_string, "%M:%S").  _strptime turns the format into
\* the regular expression  (?P<M>[0-5]\d|\d):(?P<S>6[0-1]|[0-5]\d|\d) , matches
\* it at the start of the string (alternatives in that priority, backtracking
\* on the colon), raises ValueError when nothing matches or when characters
\* remain after the match, and the datetime constructor then raises ValueError
\* for a second outside 0..59.
\* ---------------------------------------------------------------------------

\* lengths of the ways %M can match at position p, in the regex's priority
MinuteAlts(s, p) ==
    (IF IsDigitAt(s, p) /\ DigitVal(s[p]) <= 5 /\ IsDigitAt(s, p + 1)
        THEN <<2>> ELSE << >>)
    \o (IF IsDigitAt(s, p) THEN <<1>> ELSE << >>)

\* lengths of the ways %S can match at position p, in the regex's priority
SecondAlts(s, p) ==
    (IF IsDigitAt(s, p) /\ s[p] = "6" /\ IsDigitAt(s, p + 1)
        /\ DigitVal(s[p + 1]) <= 1 THEN <<2>> ELSE << >>)
    \o (IF IsDigitAt(s, p) /\ DigitVal(s[p]) <= 5 /\ IsDigitAt(s, p + 1)
        THEN <<2>> ELSE << >>)
    \o (IF IsDigitAt(s, p) THEN <<1>> ELSE << >>)

\* the decimal value of the n characters of s from position p
NumAt(s, p, n) ==
    IF n = 1 THEN DigitVal(s[p]) ELSE 10 * DigitVal(s[p]) + DigitVal(s[p + 1])

Unconverted_Never(s, endpos) == FALSE

\* "unconverted data remains": the match must end where the string ends
Unconverted(s, endpos) == endpos # Len(s)

NoTime == [err |-> "ValueError", minute |-> 0, second |-> 0]

strptime(s) ==
    LET malts == MinuteAlts(s, 1)
        \* %M alternatives after which the literal colon matches
        mok == SelectSeq(malts, LAMBDA n : 1 + n <= Len(s) /\ s[1 + n] = ":")
    IN  IF mok = << >> THEN NoTime
        ELSE LET mlen == Head(mok)
                 salts == SecondAlts(s, mlen + 2)
             IN  IF salts = << >> THEN NoTime
                 ELSE LET slen == Head(salts)
                          endpos == mlen + 1 + slen
                          sec == NumAt(s, mlen + 2, slen)
                      IN  IF Unconverted(s, endpos) THEN NoTime
                          ELSE IF sec > 59 THEN NoTime     \* datetime(...)
                          ELSE [err |-> "none",
                                minute |-> NumAt(s, 1, mlen),
                                second |-> sec]

timedelta_NoSeconds(m, s) ==
    [days |-> (m * SecondsPerMinute) \div SecondsPerDay,
     seconds |-> (m * SecondsPerMinute) % SecondsPerDay]

\* timedelta(minutes=m, seconds=s): normalised to days and seconds
timedelta(m, s) ==
    LET total == m * SecondsPerMinute + s
    IN  [days |-> total \div SecondsPerDay, seconds |-> total % SecondsPerDay]

NoDelta == [err |-> "ValueError", days |-> 0, seconds |-> 0]

convert_date_string_to_datetime(time_string) ==
    LET t == strptime(time_string)
    IN  IF t.err # "none" THEN NoDelta
        ELSE LET delta == timedelta(t.minute, t.second)
             IN  [err |-> "none", days |-> delta.days, seconds |-> delta.seconds]

MinutesOf_Floor(delta) ==
    [num |-> delta.seconds \div SecondsPerMinute, den |-> 1]

\* df['Time'].dt.seconds / 60: pandas divides a Series truly, so the value is
\* the rational seconds/60, kept as numerator and denominator.
MinutesOf(delta) == [num |-> delta.seconds, den |-> SecondsPerMinute]

\* int(x) as astype(int) applies it to a stripped cell: an optional sign and
\* at least one digit.
IsIntLiteral(s) ==
    LET body == IF s # << >> /\ Head(s) \in {"+", "-"} THEN Tail(s) ELSE s
    IN  body # << >> /\ \A i \in 1..Len(body) : body[i] \in Digit

RECURSIVE DecimalValue(_)
DecimalValue(s) ==
    IF s = << >> THEN 0
    ELSE 10 * DecimalValue(SubSeq(s, 1, Len(s) - 1)) + DigitVal(s[Len(s)])

int(s) ==
    IF Head(s) = "-" THEN 0 - DecimalValue(Tail(s))
    ELSE IF Head(s) = "+" THEN DecimalValue(Tail(s))
    ELSE DecimalValue(s)

\* ---------------------------------------------------------------------------
\* The row cleaner of parse_results_table (and of cell 13):
\*   header = [row for row in raw_data if len(row) == 9][0]
\*   for row in raw_data:
\*       if row <> header and len(row) == 9: cleaned_data.append(row)
\* ---------------------------------------------------------------------------
HeaderCandidates(raw_data) == SelectSeq(raw_data, LAMBDA row : Len(row) = HeaderLen)

IsKept_AnyNine(row, header) == Len(row) = HeaderLen

IsKept_AnyLength(row, header) == row # header

IsKept(row, header) == row # header /\ Len(row) = HeaderLen

RECURSIVE CleanLoop(_, _, _, _)
CleanLoop(raw_data, i, header, cleaned_data) ==
    IF i > Len(raw_data) THEN cleaned_data
    ELSE CleanLoop(raw_data, i + 1, header,
                   IF IsKept(raw_data[i], header)
                      THEN Append(cleaned_data, raw_data[i])
                      ELSE cleaned_data)

NoFrame == [err |-> "IndexError", header |-> << >>, cleaned_data |-> << >>]

CleanRows_Headerless(raw_data) ==
    LET candidates == HeaderCandidates(raw_data)
    IN  IF candidates = << >>
        THEN [err |-> "none", header |-> << >>, cleaned_data |-> << >>]
        ELSE [err |-> "none", header |-> candidates[1],
              cleaned_data |-> CleanLoop(raw_data, 1, candidates[1], << >>)]

\* the frame pd.DataFrame(data = cleaned_data, columns = header), or the
\* IndexError of [...][0] on an empty list
CleanRows(raw_data) ==
    LET candidates == HeaderCandidates(raw_data)
    IN  IF candidates = << >> THEN NoFrame
        ELSE LET header == candidates[1]
             IN  [err |-> "none", header |-> header,
                  cleaned_data |-> CleanLoop(raw_data, 1, header, << >>)]

\* ---------------------------------------------------------------------------
\* Rows of the results site (cell 12's output): a title row of one cell, the
\* nine-column header, and result rows.
\* ---------------------------------------------------------------------------
TotalTimeLabel == <<"T", "o", "t", "a", "l", " ", "T", "i", "m", "e">>
PlaceLabel == <<"P", "l", "a", "c", "e">>
AgeLabel == <<"A", "g", "e">>
BibNoLabel == <<"B", "i", "b", " ", "N", "o">>
YearLabel == <<"Y", "e", "a", "r">>

TitleRow == << <<"W", "o", "m", "e", "n">> >>

HeaderRow ==
    << PlaceLabel, <<"N", "a", "m", "e">>, <<"T", "e", "a", "m">>, BibNoLabel,
       AgeLabel, <<"G", "e", "n", "d", "e", "r">>, <<"A", "G">>,
       TotalTimeLabel, <<"P", "a", "c", "e">> >>

\* 1, Alexandra Sciocchetti, UNATTACHED, 189, 20, F, 1/48 13-39, 20:20, 5:55/M
Row2020 ==
    << <<"1">>, <<"A", "S">>, <<"U">>, <<"1", "8", "9">>, <<"2", "0">>,
       <<"F">>, <<"1", "/", "4", "8">>, <<"2", "0", ":", "2", "0">>,
       <<"5", ":", "5", "5">> >>

\* 1, Isaac Chavez, Aggies Running Club, 414, 24, M, 1/52 16-99, 16:51, 4:54/M
Row1651 ==
    << <<"1">>, <<"I", "C">>, <<"A", "R", "C">>, <<"4", "1", "4">>,
       <<"2", "4">>, <<"M">>, <<"1", "/", "5", "2">>,
       <<"1", "6", ":", "5", "1">>, <<"4", ":", "5", "4">> >>

\* a result row whose Age cell is not a number
RowBadAge ==
    << <<"3">>, <<"J", "S">>, <<"S", "C">>, <<"1", "9", "1">>, <<"?">>,
       <<"F">>, <<"3", "/", "4", "8">>, <<"2", "0", ":", "2", "6">>,
       <<"5", ":", "5", "7">> >>

\* a result row whose Total Time has a minute part above 59
RowBadTime ==
    << <<"9">>, <<"M", "P">>, <<"I", "R">>, <<"1", "7", "4">>, <<"3", "3">>,
       <<"F">>, <<"4", "/", "4", "8">>, <<"6", "5", ":", "1", "0">>,
       <<"9", ":", "0", "1">> >>

\* rows of eight and of ten cells
Row8 == SubSeq(Row2020, 1, 8)
Row10 == Append(Row1651, <<"x">>)

RowPool == {TitleRow, HeaderRow, Row2020, Row1651, RowBadAge, RowBadTime}
ParsePool == {TitleRow, HeaderRow, Row2020, Row1651, Row8, Row10}

SeqsUpTo(S, n) == UNION {[1..k -> S] : k \in 0..n}

\* ---------------------------------------------------------------------------
\* Configuration (cell 3) and the web site
\* ---------------------------------------------------------------------------
years == <<2015, 2016>>

urls_FirstOnly == [k \in 1..Len(years) |-> years[1] % 100]

\* 'http://www.empirerunners.com/results/empireopen/eo{}.html'.format(str(y)[2:])
\* : a URL is identified by the digits of the year after the first two
urls == [k \in 1..Len(years) |-> years[k] % 100]

UrlSet == {urls[k] : k \in 1..Len(years)}

\* a parsed page: whether soup.find('table') finds a table, and the cell texts
\* of its rows in document order
NoTablePage == [table |-> FALSE, rows |-> << >>]

RECURSIVE Sum(_, _)
Sum(v, k) == IF k = 0 THEN 0 ELSE Sum(v, k - 1) + v[k]

\* the site whose k-th URL serves a table (if hasTable[k]) of the next
\* rowCount[k] rows of allRows
SiteOf(hasTable, rowCount, allRows) ==
    [u \in UrlSet |->
        LET k == CHOOSE n \in 1..Len(urls) : urls[n] = u
        IN  IF hasTable[k]
            THEN [table |-> TRUE,
                  rows |-> SubSeq(allRows, Sum(rowCount, k - 1) + 1,
                                  Sum(rowCount, k))]
            ELSE NoTablePage]

\* ---------------------------------------------------------------------------
\* State
\* ---------------------------------------------------------------------------
VARIABLES
    web,            \* the site: the page each URL serves during the run
    pc,             \* the statement the notebook run is at
    err,            \* the exception that stopped the run, with its stage
    soup,           \* cell 3: the parsed page of urls[0]
    raw_data,       \* cell 12
    header,         \* cell 13
    cleaned_data,   \* cell 13
    i,              \* position of the year loop of cell 16 in zip(years, urls)
    page,           \* soup inside parse_results_table
    d,              \* the frame parse_results_table returned
    df,             \* the accumulating dataset
    events,         \* the urlopen calls, parses and appends made so far
    file,           \* cleaned_race_results.p
    writes,         \* number of to_pickle calls made
    time_string,    \* argument of convert_date_string_to_datetime
    time_result,    \* its result, and the Minutes derived from it
    rows_in,        \* rows handed to the row cleaner
    frame_out       \* the cleaner's result

vars == <<web, pc, err, soup, raw_data, header, cleaned_data, i, page, d, df,
          events, file, writes, time_string, time_result, rows_in, frame_out>>

runVars == <<web, pc, err, soup, raw_data, header, cleaned_data, i, page, d,
             df, events, file, writes>>
unitVars == <<time_string, time_result, rows_in, frame_out>>

NoError == [stage |-> "none", kind |-> "none"]
PriorOutput == [written |-> FALSE, data |-> << >>]
EmptyFrame == [columns |-> {}, rows |-> << >>]       \* pd.DataFrame()
UnsetTime == [err |-> "unset", days |-> 0, seconds |-> 0]
UnsetMinutes == [num |-> 0, den |-> 0]
UnsetResult == [called |-> FALSE, Time |-> UnsetTime, Minutes |-> UnsetMinutes]
UnsetFrame == [err |-> "unset", header |-> << >>, cleaned_data |-> << >>]

InitRun ==
    /\ pc = "cell3"
    /\ err = NoError
    /\ soup = NoTablePage
    /\ raw_data = << >>
    /\ header = << >>
    /\ cleaned_data = << >>
    /\ i = 1
    /\ page = NoTablePage
    /\ d = UnsetFrame
    /\ df = EmptyFrame
    /\ events = << >>
    /\ file = PriorOutput
    /\ writes = 0

InitUnit ==
    /\ time_string = << >>
    /\ time_result = UnsetResult
    /\ rows_in = << >>
    /\ frame_out = UnsetFrame

Init ==
    /\ \E hasTable \in [1..Len(urls) -> BOOLEAN],
          rowCount \in [1..Len(urls) -> 0..MaxSiteRows] :
          /\ Sum(rowCount, Len(urls)) <= MaxSiteRows
          /\ \A k \in 1..Len(urls) : ~hasTable[k] => rowCount[k] = 0
          /\ \E allRows \in [1..Sum(rowCount, Len(urls)) -> RowPool] :
                web = SiteOf(hasTable, rowCount, allRows)
    /\ InitRun
    /\ InitUnit

\* an exception stops the run: no later statement executes
Raise(stage, kind) ==
    /\ pc' = "failed"
    /\ err' = [stage |-> stage, kind |-> kind]

\* ---------------------------------------------------------------------------
\* Cells 3 to 13: the walk through the first year's page
\* ---------------------------------------------------------------------------
\* html = urllib2.urlopen(urls[0]).read(); soup = BeautifulSoup(html, ...)
Cell3 ==
    /\ pc = "cell3"
    /\ events' = Append(events, <<"fetch", urls[1]>>)
    /\ \E ok \in BOOLEAN :
          IF ok THEN /\ soup' = web[urls[1]]
                     /\ pc' = "cell6"
                     /\ err' = err
          ELSE /\ Raise("cell3", "URLError")
               /\ soup' = soup
    /\ UNCHANGED <<web, raw_data, header, cleaned_data, i, page, d, df, file,
                   writes, unitVars>>

\* table = soup.find('table'); print table.prettify()[:750]
Cell6 ==
    /\ pc = "cell6"
    /\ IF soup.table THEN pc' = "cell12" /\ err' = err
       ELSE Raise("cell6", "AttributeError")
    /\ UNCHANGED <<web, soup, raw_data, header, cleaned_data, i, page, d, df,
                   events, file, writes, unitVars>>

\* raw_data = [[cell_value.text.strip() ...] for row in table.find_all('tr')]
Cell12 ==
    /\ pc = "cell12"
    /\ raw_data' = soup.rows
    /\ pc' = "cell13"
    /\ UNCHANGED <<web, err, soup, header, cleaned_data, i, page, d, df,
                   events, file, writes, unitVars>>

\* header = [...][0]; cleaned_data = [...]
Cell13 ==
    /\ pc = "cell13"
    /\ LET frame == CleanRows(raw_data)
       IN  IF frame.err = "none"
           THEN /\ header' = frame.header
                /\ cleaned_data' = frame.cleaned_data
                /\ pc' = "cell16"
                /\ err' = err
           ELSE /\ Raise("cell13", frame.err)
                /\ UNCHANGED <<header, cleaned_data>>
    /\ UNCHANGED <<web, soup, raw_data, i, page, d, df, events, file, writes,
                   unitVars>>

\* ---------------------------------------------------------------------------
\* Cell 16: the year loop
\*   df = pd.DataFrame()
\*   for year, url in zip(years, urls):
\*       d = parse_results_table(url); d['Year'] = year; df = df.append(d)
\* ---------------------------------------------------------------------------
Labels(h) == {h[k] : k \in 1..Len(h)}

\* the rows of frame d after d['Year'] = year
TagYear(frame, year) ==
    [k \in 1..Len(frame.cleaned_data) |->
        [header |-> frame.header, row |-> frame.cleaned_data[k], Year |-> year,
         Time |-> UnsetTime, Minutes |-> UnsetMinutes, ints |-> << >>]]

AppendFrame_Front(frame, columns, rows) ==
    [columns |-> frame.columns \cup columns, rows |-> rows \o frame.rows]

\* df.append(d): the rows of d after those of df, the columns of both
AppendFrame(frame, columns, rows) ==
    [columns |-> frame.columns \cup columns, rows |-> frame.rows \o rows]

Cell16 ==
    /\ pc = "cell16"
    /\ df' = EmptyFrame
    /\ i' = 1
    /\ pc' = IF Len(years) = 0 THEN "convert" ELSE "fetch"
    /\ UNCHANGED <<web, err, soup, raw_data, header, cleaned_data, page, d,
                   events, file, writes, unitVars>>

\* parse_results_table: html = urllib2.urlopen(url).read(); soup = ...
Fetch ==
    /\ pc = "fetch"
    /\ events' = Append(events, <<"fetch", urls[i]>>)
    /\ \E ok \in BOOLEAN :
          IF ok THEN /\ page' = web[urls[i]]
                     /\ pc' = "parse"
                     /\ err' = err
          ELSE /\ Raise("fetch", "URLError")
               /\ page' = page
    /\ UNCHANGED <<web, soup, raw_data, header, cleaned_data, i, d, df, file,
                   writes, unitVars>>

\* parse_results_table: table = soup.find('table') ... return pd.DataFrame(...)
Parse ==
    /\ pc = "parse"
    /\ IF ~page.table
       THEN /\ Raise("parse", "AttributeError")
            /\ UNCHANGED <<d, events>>
       ELSE LET frame == CleanRows(page.rows)
            IN  IF frame.err = "none"
                THEN /\ d' = frame
                     /\ events' = Append(events, <<"parse", years[i]>>)
                     /\ pc' = "append"
                     /\ err' = err
                ELSE /\ Raise("parse", frame.err)
                     /\ UNCHANGED <<d, events>>
    /\ UNCHANGED <<web, soup, raw_data, header, cleaned_data, i, page, df,
                   file, writes, unitVars>>

\* d['Year'] = year; df = df.append(d); and the loop's step
AppendYear ==
    /\ pc = "append"
    /\ df' = AppendFrame(df, Labels(d.header) \cup {YearLabel},
                         TagYear(d, years[i]))
    /\ events' = Append(events, <<"append", years[i]>>)
    /\ i' = i + 1
    /\ pc' = IF i = Len(years) THEN "convert" ELSE "fetch"
    /\ UNCHANGED <<web, err, soup, raw_data, header, cleaned_data, page, d,
                   file, writes, unitVars>>

\* ---------------------------------------------------------------------------
\* Cell 18: Time, Minutes, integer columns, sort, pickle
\* ---------------------------------------------------------------------------
NaN == [nan |-> TRUE, text |-> << >>]

\* the value a row has in the column called label: rows of a frame that did
\* not have the column hold NaN after append
Value(rec, label) ==
    LET at == {k \in 1..Len(rec.header) : rec.header[k] = label}
    IN  IF at = {} THEN NaN
        ELSE [nan |-> FALSE,
              text |-> rec.row[CHOOSE k \in at : \A m \in at : k <= m]]

FirstError_Ignored(results) == "none"

\* the exception of the first element a function fails on, "none" if none
FirstError(results) ==
    LET bad == {k \in 1..Len(results) : results[k].err # "none"}
    IN  IF bad = {} THEN "none"
        ELSE results[CHOOSE k \in bad : \A m \in bad : k <= m].err

\* df['Total Time'].apply(convert_date_string_to_datetime)
TimeColumn(rows) ==
    [k \in 1..Len(rows) |->
        LET v == Value(rows[k], TotalTimeLabel)
        IN  IF v.nan THEN [err |-> "TypeError", days |-> 0, seconds |-> 0]
            ELSE convert_date_string_to_datetime(v.text)]

Convert ==
    /\ pc = "convert"
    /\ IF TotalTimeLabel \notin df.columns
       THEN Raise("convert", "KeyError") /\ df' = df
       ELSE LET col == TimeColumn(df.rows)
            IN  IF FirstError(col) # "none"
                THEN Raise("convert", FirstError(col)) /\ df' = df
                ELSE /\ df' = [df EXCEPT !.rows =
                               [k \in 1..Len(df.rows) |->
                                   [df.rows[k] EXCEPT !.Time = col[k]]]]
                     /\ pc' = "minutes"
                     /\ err' = err
    /\ UNCHANGED <<web, soup, raw_data, header, cleaned_data, i, page, d,
                   events, file, writes, unitVars>>

\* df['Minutes'] = df['Time'].dt.seconds/60 ; apply on an empty column leaves
\* it of dtype object, which has no .dt accessor
Minutes ==
    /\ pc = "minutes"
    /\ IF df.rows = << >>
       THEN Raise("minutes", "AttributeError") /\ df' = df
       ELSE /\ df' = [df EXCEPT !.rows =
                      [k \in 1..Len(df.rows) |->
                          [df.rows[k] EXCEPT
                              !.Minutes = MinutesOf(df.rows[k].Time)]]]
            /\ pc' = "astype"
            /\ err' = err
    /\ UNCHANGED <<web, soup, raw_data, header, cleaned_data, i, page, d,
                   events, file, writes, unitVars>>

IntLabels == <<PlaceLabel, AgeLabel, BibNoLabel>>

\* the cells of a row that int() rejects
BadInts(rec) ==
    {n \in 1..Len(IntLabels) :
        LET v == Value(rec, IntLabels[n])
        IN  v.nan \/ ~IsIntLiteral(v.text)}

\* df[['Place' ,'Age', 'Bib No']] = df[['Place' ,'Age', 'Bib No']].astype(int)
Astype ==
    /\ pc = "astype"
    /\ IF \E n \in 1..Len(IntLabels) : IntLabels[n] \notin df.columns
       THEN Raise("astype", "KeyError") /\ df' = df
       ELSE IF \E k \in 1..Len(df.rows) : BadInts(df.rows[k]) # {}
       THEN Raise("astype", "ValueError") /\ df' = df
       ELSE /\ df' = [df EXCEPT !.rows =
                      [k \in 1..Len(df.rows) |->
                          [df.rows[k] EXCEPT !.ints =
                              [n \in 1..Len(IntLabels) |->
                                  int(Value(df.rows[k], IntLabels[n]).text)]]]]
            /\ pc' = "sort"
            /\ err' = err
    /\ UNCHANGED <<web, soup, raw_data, header, cleaned_data, i, page, d,
                   events, file, writes, unitVars>>

\* the sort key of a row: its Time as a number of seconds
TimeKey(rec) == rec.Time.days * SecondsPerDay + rec.Time.seconds

IsSortedByTime_Descending(rows) ==
    \A k \in 1..(Len(rows) - 1) :
        rows[k + 1].Time.days * SecondsPerDay + rows[k + 1].Time.seconds
            <= rows[k].Time.days * SecondsPerDay + rows[k].Time.seconds

IsSortedByTime(rows) ==
    \A k \in 1..(Len(rows) - 1) : TimeKey(rows[k]) <= TimeKey(rows[k + 1])

Arrangements(n) ==
    {p \in [1..n -> 1..n] : \A a, b \in 1..n : p[a] = p[b] => a = b}

\* df = df.sort_values(by = 'Time').reset_index(drop=True): sort_values sorts
\* with its default kind, quicksort, which does not promise to keep rows of
\* equal Time in their order; any ascending arrangement is a possible result
Sort ==
    /\ pc = "sort"
    /\ \E p \in Arrangements(Len(df.rows)) :
          LET sorted == [k \in 1..Len(df.rows) |-> df.rows[p[k]]]
          IN  /\ IsSortedByTime(sorted)
              /\ df' = [df EXCEPT !.rows = sorted]
    /\ pc' = "pickle"
    /\ UNCHANGED <<web, err, soup, raw_data, header, cleaned_data, i, page, d,
                   events, file, writes, unitVars>>

\* df.to_pickle('cleaned_race_results.p')
ToPickle ==
    /\ pc = "pickle"
    /\ file' = [written |-> TRUE, data |-> df.rows]
    /\ writes' = writes + 1
    /\ pc' = "done"
    /\ UNCHANGED <<web, err, soup, raw_data, header, cleaned_data, i, page, d,
                   df, events, unitVars>>

Next ==
    \/ Cell3
    \/ Cell6
    \/ Cell12
    \/ Cell13
    \/ Cell16
    \/ Fetch
    \/ Parse
    \/ AppendYear
    \/ Convert
    \/ Minutes
    \/ Astype
    \/ Sort
    \/ ToPickle

Spec == Init /\ [][Next]_vars

\* ---------------------------------------------------------------------------
\* The converter and the row cleaner on their own, over all bounded inputs
\* ---------------------------------------------------------------------------
TimeChars == {"0", "1", "5", "6", ":", "x"}

IdleSite == [u \in UrlSet |-> NoTablePage]

\* Time = convert_date_string_to_datetime(time_string); Minutes = seconds/60
ConvertCall ==
    /\ ~time_result.called
    /\ LET delta == convert_date_string_to_datetime(time_string)
       IN  time_result' =
              [called |-> TRUE, Time |-> delta,
               Minutes |-> IF delta.err = "none" THEN MinutesOf(delta)
                           ELSE UnsetMinutes]
    /\ UNCHANGED <<runVars, time_string, rows_in, frame_out>>

InitTime ==
    /\ web = IdleSite
    /\ InitRun
    /\ InitUnit!2
    /\ InitUnit!3
    /\ InitUnit!4
    /\ time_string \in SeqsUpTo(TimeChars, MaxTimeLen)

SpecTime == InitTime /\ [][ConvertCall]_vars

\* the cleaning steps of parse_results_table applied to rows_in
CleanCall ==
    /\ frame_out.err = "unset"
    /\ frame_out' = CleanRows(rows_in)
    /\ UNCHANGED <<runVars, time_string, time_result, rows_in>>

InitParse ==
    /\ web = IdleSite
    /\ InitRun
    /\ InitUnit!1
    /\ InitUnit!2
    /\ InitUnit!4
    /\ rows_in \in SeqsUpTo(ParsePool, MaxParseRows)

SpecParse == InitParse /\ [][CleanCall]_vars

\* ===========================================================================
\* Properties
\* ===========================================================================

\* ---- what the properties speak about, stated without the model's operators
NineCells(rows) == {k \in 1..Len(rows) : Len(rows[k]) = 9}

FirstNine(rows) ==
    rows[CHOOSE k \in NineCells(rows) : \A m \in NineCells(rows) : k <= m]

\* the rows of nine cells that differ from the first row of nine cells
DataRows(rows) ==
    SelectSeq(rows, LAMBDA r : Len(r) = 9 /\ r # FirstNine(rows))

PageOfYear(n) == web[urls[n]]

\* the rows of the first n years, each with its year, in the order of years
RECURSIVE Merged(_)
Merged(n) ==
    IF n = 0 THEN << >>
    ELSE Merged(n - 1)
         \o [k \in 1..Len(DataRows(PageOfYear(n).rows)) |->
                <<DataRows(PageOfYear(n).rows)[k], years[n]>>]

Base(rec) == <<rec.row, rec.Year>>
Bases(rows) == [k \in 1..Len(rows) |-> Base(rows[k])]

Count(x, seq) == Cardinality({k \in 1..Len(seq) : seq[k] = x})
Appended == Count("append", [k \in 1..Len(events) |-> events[k][1]])

\* s is digits, a colon and digits, the parts' lengths in minLens and secLens
HasForm(s, minLens, secLens) ==
    \E c \in 1..Len(s) :
        /\ s[c] = ":"
        /\ (c - 1) \in minLens
        /\ (Len(s) - c) \in secLens
        /\ \A k \in 1..Len(s) : k # c => s[k] \in Digit

ColonOf(s) == CHOOSE c \in 1..Len(s) : s[c] = ":"
MinutePart(s) == SubSeq(s, 1, ColonOf(s) - 1)
SecondPart(s) == SubSeq(s, ColonOf(s) + 1, Len(s))
\* the number of seconds "MM:SS" stands for
SecondsOf(s) == 60 * DecimalValue(MinutePart(s)) + DecimalValue(SecondPart(s))

DurationSeconds(delta) == delta.days * 86400 + delta.seconds

\* C1: when some row has nine cells, the cleaner returns exactly the rows of
\* nine cells that differ from the first row of nine cells, in their original
\* order, the header being that first row.
C1_CleanedRowsExact ==
    (frame_out.err # "unset" /\ NineCells(rows_in) # {})
        => /\ frame_out.err = "none"
           /\ frame_out.header = FirstNine(rows_in)
           /\ frame_out.cleaned_data = DataRows(rows_in)

C1_Witness ==
    /\ frame_out.err = "none"
    /\ rows_in = <<TitleRow, HeaderRow, Row2020, HeaderRow>>
    /\ frame_out.cleaned_data = <<Row2020>>

\* C2: every record of the frame being appended, of the dataset and of the
\* written file comes from a row of nine cells that differs from the header
\* (the first row of nine cells) of the page of its year.
FromDataRow(rec) ==
    /\ Len(rec.row) = 9
    /\ \E n \in 1..Len(years) :
          /\ years[n] = rec.Year
          /\ NineCells(PageOfYear(n).rows) # {}
          /\ rec.row # FirstNine(PageOfYear(n).rows)
          /\ \E k \in 1..Len(PageOfYear(n).rows) : PageOfYear(n).rows[k] = rec.row

C2_OnlyDataRows ==
    /\ \A k \in 1..Len(df.rows) : FromDataRow(df.rows[k])
    /\ \A k \in 1..Len(file.data) : FromDataRow(file.data[k])
    /\ \A k \in 1..Len(d.cleaned_data) :
          Len(d.cleaned_data[k]) = 9 /\ d.cleaned_data[k] # d.header

C2_Witness ==
    /\ PageOfYear(1).rows = <<TitleRow, HeaderRow, Row2020, HeaderRow>>
    /\ pc = "fetch"
    /\ Bases(df.rows) = <<<<Row2020, years[1]>>>>

\* C3 as stated: every string of one to three digits, a colon and two digits
\* converts, without failing, to that many minutes and seconds.
C3_AsStated ==
    (time_result.called /\ HasForm(time_string, 1..3, {2}))
        => /\ time_result.Time.err = "none"
           /\ DurationSeconds(time_result.Time) = SecondsOf(time_string)

\* C3: a string of one or two digits, a colon and two digits converts to that
\* many minutes and seconds when both parts are at most 59; with a minute part
\* of three digits or above 59, or seconds above 59, the conversion fails with
\* a ValueError.
C3_MinutesUpTo59 ==
    (time_result.called /\ HasForm(time_string, 1..3, {2}))
        => IF /\ Len(MinutePart(time_string)) <= 2
              /\ DecimalValue(MinutePart(time_string)) <= 59
              /\ DecimalValue(SecondPart(time_string)) <= 59
           THEN /\ time_result.Time.err = "none"
                /\ DurationSeconds(time_result.Time) = SecondsOf(time_string)
           ELSE time_result.Time.err = "ValueError"

C3_Witness ==
    /\ time_string = <<"1", "6", ":", "5", "1">>
    /\ time_result.called
    /\ time_result.Time = [err |-> "none", days |-> 0, seconds |-> 1011]

\* C4 as stated: every string that is not digits, a colon and exactly two
\* digits fails and yields no duration.
C4_AsStated ==
    (time_result.called /\ ~HasForm(time_string, 1..Len(time_string), {2}))
        => /\ time_result.Time.err = "ValueError"
           /\ time_result.Minutes = UnsetMinutes

\* C4: every string that is not one or two digits, a colon and one or two
\* digits fails with a ValueError and yields no duration; a one-digit seconds
\* part after a minute part of at most 59 is accepted.
C4_RejectsOtherShapes ==
    /\ (time_result.called /\ ~HasForm(time_string, {1, 2}, {1, 2}))
          => /\ time_result.Time.err = "ValueError"
             /\ time_result.Minutes = UnsetMinutes
    /\ (/\ time_result.called
        /\ HasForm(time_string, {1, 2}, {1})
        /\ DecimalValue(MinutePart(time_string)) <= 59)
          => /\ time_result.Time.err = "none"
             /\ DurationSeconds(time_result.Time) = SecondsOf(time_string)

C4_Witness ==
    /\ time_string = <<"1", "6", ":", "5", "1", "x">>
    /\ time_result.called
    /\ time_result.Time.err = "ValueError"

\* C7: the Minutes of a converted Total Time "MM:SS" is its number of seconds
\* divided by 60, not truncated: 60 * Minutes = 60 * MM + SS.
C7_MinutesExact ==
    (time_result.called /\ time_result.Time.err = "none")
        => /\ time_result.Minutes.den > 0
           /\ 60 * time_result.Minutes.num
                 = time_result.Minutes.den * SecondsOf(time_string)

C7_Witness ==
    /\ time_string = <<"1", "6", ":", "5", "1">>
    /\ time_result.Minutes = [num |-> 1011, den |-> 60]

\* ---- the sort
\* the seconds of the Total Time of a merged row, read under its page's header
KeyOf(b) ==
    LET n == CHOOSE m \in 1..Len(years) : years[m] = b[2]
        h == FirstNine(PageOfYear(n).rows)
    IN  SecondsOf(b[1][CHOOSE k \in 1..Len(h) : h[k] = TotalTimeLabel])

\* x put into the ascending sequence s behind every element not above it
RECURSIVE InsertBehind(_, _)
InsertBehind(s, x) ==
    IF s = << >> THEN <<x>>
    ELSE IF KeyOf(s[Len(s)]) <= KeyOf(x) THEN Append(s, x)
    ELSE Append(InsertBehind(SubSeq(s, 1, Len(s) - 1), x), s[Len(s)])

RECURSIVE StableSorted(_)
StableSorted(s) ==
    IF s = << >> THEN << >>
    ELSE InsertBehind(StableSorted(SubSeq(s, 1, Len(s) - 1)), s[Len(s)])

SameElements(a, b) ==
    /\ Len(a) = Len(b)
    /\ \A k \in 1..Len(a) : Count(a[k], a) = Count(a[k], b)

\* C5 as stated: the written dataset is the stable ascending sort by Time of
\* the merged dataset, rows of equal Time keeping their merge order.
C5_AsStated ==
    pc = "done" => Bases(file.data) = StableSorted(Merged(Len(years)))

\* C5: the written dataset is a permutation of the merged records in which
\* each record's Time, the duration of its Total Time, is at most the next
\* one's; the order of records of equal Time is not fixed.
C5_SortedPermutation ==
    pc = "done" =>
        /\ SameElements(Bases(file.data), Merged(Len(years)))
        /\ \A k \in 1..Len(file.data) :
              DurationSeconds(file.data[k].Time) = KeyOf(Base(file.data[k]))
        /\ \A k \in 1..(Len(file.data) - 1) :
              DurationSeconds(file.data[k].Time)
                  <= DurationSeconds(file.data[k + 1].Time)

C5_Witness ==
    /\ pc = "done"
    /\ Merged(Len(years)) = <<<<Row2020, years[1]>>, <<Row1651, years[2]>>>>
    /\ Bases(file.data) = <<<<Row1651, years[2]>>, <<Row2020, years[1]>>>>

\* C6: until the sort, the dataset is the concatenation, in the order of
\* years, of the data rows of the pages appended so far, each in its page's
\* order and tagged with its page's year; so an append leaves the earlier
\* records as they were.
C6_MergedInYearOrder ==
    pc \notin {"pickle", "done"} => Bases(df.rows) = Merged(Appended)

C6_Witness ==
    /\ pc = "convert"
    /\ Bases(df.rows) = <<<<Row2020, years[1]>>, <<Row1651, years[2]>>>>

\* C8: a page whose table has no row of nine cells makes parse_results_table
\* fail (IndexError) instead of returning a frame, and nothing of that page is
\* appended: the loop never gets past that year.
NoHeader(n) == PageOfYear(n).table /\ NineCells(PageOfYear(n).rows) = {}

C8_NoHeaderFails ==
    \A n \in 1..Len(years) :
        NoHeader(n) =>
            /\ i <= n
            /\ (i = n => pc # "append")
            /\ <<"parse", years[n]>> \notin {events[k] : k \in 1..Len(events)}
            /\ <<"append", years[n]>> \notin {events[k] : k \in 1..Len(events)}
            /\ \A k \in 1..Len(df.rows) : df.rows[k].Year # years[n]
            /\ (pc = "failed" /\ err.stage = "parse" /\ i = n)
                  => err.kind = "IndexError"
            /\ pc # "done"

C8_Witness ==
    /\ NoHeader(2)
    /\ PageOfYear(2).rows = <<TitleRow>>
    /\ pc = "failed"
    /\ err = [stage |-> "parse", kind |-> "IndexError"]
    /\ Bases(df.rows) = <<<<Row2020, years[1]>>>>

\* C9: the file is written at most once, and only by a run that appended every
\* year, gave every record its Time, Minutes and integers and sorted the
\* dataset; a run that failed stopped at the failing stage, with the results of
\* no later stage, and left the prior file as it was.
StageDone(stage) ==
    CASE stage = "convert" -> \A k \in 1..Len(df.rows) : df.rows[k].Time.err = "none"
      [] stage = "minutes" -> \A k \in 1..Len(df.rows) : df.rows[k].Minutes.den > 0
      [] stage = "astype" -> \A k \in 1..Len(df.rows) : Len(df.rows[k].ints) = 3

StageUndone(stage) ==
    CASE stage = "convert" -> \A k \in 1..Len(df.rows) : df.rows[k].Time = UnsetTime
      [] stage = "minutes" -> \A k \in 1..Len(df.rows) : df.rows[k].Minutes = UnsetMinutes
      [] stage = "astype" -> \A k \in 1..Len(df.rows) : df.rows[k].ints = << >>

C9_AllOrNothing ==
    /\ writes <= 1
    /\ (writes = 1) = (pc = "done")
    /\ pc # "done" => file = PriorOutput
    /\ pc = "done" =>
          /\ Appended = Len(years)
          /\ StageDone("convert") /\ StageDone("minutes") /\ StageDone("astype")
          /\ \A k \in 1..(Len(df.rows) - 1) :
                DurationSeconds(df.rows[k].Time)
                    <= DurationSeconds(df.rows[k + 1].Time)
          /\ file = [written |-> TRUE, data |-> df.rows]
    /\ pc \in {"minutes", "astype", "sort", "pickle"} => StageDone("convert")
    /\ pc \in {"astype", "sort", "pickle"} => StageDone("minutes")
    /\ pc \in {"sort", "pickle"} => StageDone("astype")
    /\ pc = "failed" =>
          /\ err.stage \in {"cell3", "cell6", "cell13", "fetch", "parse"}
                => StageUndone("convert") /\ Appended < Len(years)
          /\ err.stage = "convert" => StageUndone("convert")
          /\ err.stage = "minutes" => StageUndone("minutes")
          /\ err.stage = "astype" => StageUndone("astype")
          /\ err.stage \in {"cell3", "cell6", "cell13", "fetch", "parse",
                            "convert", "minutes", "astype"}

C9_Witness ==
    /\ pc = "failed"
    /\ err = [stage |-> "astype", kind |-> "ValueError"]
    /\ Bases(df.rows) = <<<<Row2020, years[1]>>, <<RowBadAge, years[2]>>>>
    /\ StageDone("minutes")
    /\ file = PriorOutput

\* ---- the order of the network calls
RECURSIVE LoopEvents(_)
LoopEvents(n) ==
    IF n = 0 THEN << >>
    ELSE LoopEvents(n - 1)
         \o << <<"fetch", years[n] % 100>>, <<"parse", years[n]>>,
               <<"append", years[n]>> >>

IsPrefix(a, b) == Len(a) <= Len(b) /\ a = SubSeq(b, 1, Len(a))

Fetches(u) == Count(<<"fetch", u>>, events)

\* C10 as stated: over the whole run no URL is fetched a second time.
C10_AsStated == \A u \in UrlSet : Fetches(u) <= 1

\* C10: the year loop fetches each year's URL once, in the order of years,
\* parsing and appending a year's page before the next fetch; before the loop
\* cell 3 fetches the first year's URL once, so a complete run requests that
\* URL twice and every other URL once.
C10_SequentialFetches ==
    /\ IsPrefix(events, << <<"fetch", years[1] % 100>> >> \o LoopEvents(Len(years)))
    /\ pc = "done" =>
          events = << <<"fetch", years[1] % 100>> >> \o LoopEvents(Len(years))

C10_Witness ==
    /\ pc = "done"
    /\ Fetches(urls[1]) = 2
    /\ Fetches(urls[2]) = 1

====
